---- MODULE Spec2Model ----
(***************************************************************************)
(* Static memory-reuse planner of the inference analysis pipeline          *)
(* (paddle/fluid/inference/analysis/passes/memory_optimize_pass.cc):       *)
(* CollectLifeCycle, CollectVarMemorySize, MakeSimpleReusePlan, RunImpl.   *)
(***************************************************************************)
EXTENDS Integers, Sequences, FiniteSets, TLC

VARIABLES
    nodes,          \* the ir::Graph: node id -> node record
    topo,           \* the vector TopologyVariantSort returned
    pc,             \* position of the run inside RunImpl
    pos,            \* index of the next element of topo to visit
    max_lifecycle,  \* CollectLifeCycle: step counter
    persis_byte,    \* CollectLifeCycle: bytes of the persistable variables
    lifecycles,     \* name -> <<start, end>>
    space_table,    \* name -> size_t (limbs)
    mem_nodes,      \* MakeSimpleReusePlan: vector<MemNode>
    i,              \* MakeSimpleReusePlan: outer loop index (1-based)
    j,              \* MakeSimpleReusePlan: inner loop index (1-based)
    cluster_adj,    \* MakeSimpleReusePlan: adjacency of the open cluster
    node2cluster,   \* name -> name of the cluster's first node
    cluster_size,   \* name of the cluster's first node -> int
    enable_memory_optim,  \* Argument: the flag of the session
    root_predictor_id,    \* Argument: the id of the session
    registry,       \* PassResultInfoForRuntime: <<id, pass>> -> what Set stored
    other           \* the RunImpl call of another thread, while it does not run

vars == <<nodes, topo, pc, pos, max_lifecycle, persis_byte, lifecycles,
          space_table, mem_nodes, i, j, cluster_adj, node2cluster,
          cluster_size, enable_memory_optim, root_predictor_id, registry,
          other>>

\* What the three steps of RunImpl never write: the Argument's fields read,
\* the registry, and the call of the other thread.
outside == <<enable_memory_optim, root_predictor_id, registry, other>>

-----------------------------------------------------------------------------
(* Bounds of the model.                                                    *)

NumNames == 3
MaxStep == 2
NumOps == 2
NumVars == 2

NameSeq == <<"A", "B", "C", "D", "E">>
Names == {NameSeq[n] : n \in 1..NumNames}

-----------------------------------------------------------------------------
(* Fixed-width integers. TLC's integers are 32 bits wide, so a 64-bit      *)
(* size_t is a little-endian sequence of 8 limbs in base 256, and an int   *)
(* is an integer of -2^31 .. 2^31-1.                                       *)

IntMax == 2147483647
LimbBase == 256
SizeTLimbs == 8
WideLimbs == 2 * SizeTLimbs

RECURSIVE ToLimbs(_, _)
ToLimbs(n, k) ==
    IF k = 0 THEN <<>> ELSE <<n % LimbBase>> \o ToLimbs(n \div LimbBase, k - 1)

Complement(l) == [p \in DOMAIN l |-> (LimbBase - 1) - l[p]]

\* Conversion of an int (or a small int64_t) to an unsigned value of k limbs:
\* two's complement, i.e. sign extension.
SignedToLimbs(n, k) ==
    IF n >= 0 THEN ToLimbs(n, k) ELSE Complement(ToLimbs(-(n + 1), k))

RECURSIVE ColSum(_, _, _, _)
ColSum(a, b, col, p) ==
    IF p > col THEN 0 ELSE a[p] * b[col + 1 - p] + ColSum(a, b, col, p + 1)

RECURSIVE MulCarry(_, _, _, _, _)
MulCarry(a, b, col, carry, k) ==
    IF col > k THEN <<>>
    ELSE LET t == ColSum(a, b, col, 1) + carry
         IN  <<t % LimbBase>> \o MulCarry(a, b, col + 1, t \div LimbBase, k)

\* Product of two values of k limbs, modulo 256^k.
MulLimbs(a, b) == MulCarry(a, b, 1, 0, Len(a))

\* Conversion to int: the low 32 bits, read as two's complement.
LimbsToInt(l) ==
    l[1] + 256 * l[2] + 65536 * l[3]
      + 16777216 * (IF l[4] >= 128 THEN l[4] - 256 ELSE l[4])

RECURSIVE GtFrom(_, _, _)
GtFrom(a, b, p) ==
    IF p = 0 THEN FALSE
    ELSE IF a[p] # b[p] THEN a[p] > b[p]
    ELSE GtFrom(a, b, p - 1)

\* a > b for two unsigned values of the same number of limbs.
GtLimbs(a, b) == GtFrom(a, b, Len(a))

\* Zero extension of an unsigned value to k limbs.
Widen(l, k) == [p \in 1..k |-> IF p <= Len(l) THEN l[p] ELSE 0]

Perms(S) ==
    {f \in [1..Cardinality(S) -> S] : \A p, q \in DOMAIN f : p # q => f[p] # f[q]}

EmptyMap == [x \in {} |-> 0]

Put(m, key, val) ==
    [x \in DOMAIN m \cup {key} |-> IF x = key THEN val ELSE m[x]]

-----------------------------------------------------------------------------
(* MakeSimpleReusePlan                                                     *)

\* Lines 209-218: one MemNode per entry of lifecycles that space_table has,
\* in the order in which the unordered_map enumerates its entries.
CollectMemNodes(enum) ==
    [p \in DOMAIN enum |->
        [name |-> enum[p], size |-> space_table[enum[p]], cluster |-> -1,
         lifetime |-> lifecycles[enum[p]], adj |-> {}]]

overlapStrict(a, b) == b[2] > a[1] /\ a[2] > b[1]

\* Lines 219-221.
overlap(a, b) == b[2] >= a[1] /\ a[2] >= b[1]

BuildAdjOneWay(ms) ==
    [p \in DOMAIN ms |->
        [ms[p] EXCEPT !.adj =
            {ms[q].name : q \in {q \in DOMAIN ms :
                 p < q /\ overlap(ms[p].lifetime, ms[q].lifetime)}}]]

\* Lines 223-230: the pairs p < q whose lifetimes overlap are made adjacent.
BuildAdj(ms) ==
    [p \in DOMAIN ms |->
        [ms[p] EXCEPT !.adj =
            {ms[q].name : q \in {q \in DOMAIN ms :
                 \/ p < q /\ overlap(ms[p].lifetime, ms[q].lifetime)
                 \/ q < p /\ overlap(ms[q].lifetime, ms[p].lifetime)}}]]

sort_func_asc(a, b) == GtLimbs(b.size, a.size)

\* Line 233.
sort_func(a, b) == GtLimbs(a.size, b.size)

\* Line 234: std::sort leaves the elements in some order in which no element
\* is followed by one that sort_func puts before it; the order of elements
\* that sort_func does not separate is unspecified.
SortOutcomes(ms) ==
    {[p \in DOMAIN ms |-> ms[f[p]]] : f \in
        {f \in Perms(DOMAIN ms) :
            \A p, q \in DOMAIN ms : p < q => ~sort_func(ms[f[q]], ms[f[p]])}}

CandidatesFinite ==
    {n \in DOMAIN lifecycles : n \in DOMAIN space_table /\ lifecycles[n][2] # IntMax}

\* Line 211: the entries of lifecycles that space_table has.
Candidates == {n \in DOMAIN lifecycles : n \in DOMAIN space_table}

\* Lines 209-234.
PlanPrepare ==
    /\ pc = "plan"
    /\ \E enum \in Perms(Candidates) :
         \E sorted \in SortOutcomes(BuildAdj(CollectMemNodes(enum))) :
            mem_nodes' = sorted
    /\ i' = 1
    /\ pc' = "outer"
    /\ UNCHANGED <<nodes, topo, pos, max_lifecycle, persis_byte, lifecycles,
                   space_table, j, cluster_adj, node2cluster, cluster_size,
                   outside>>

\* Line 238: the node already has a cluster.
OuterSkip ==
    /\ pc = "outer"
    /\ i <= Len(mem_nodes)
    /\ mem_nodes[i].cluster >= 0
    /\ i' = i + 1
    /\ UNCHANGED <<nodes, topo, pc, pos, max_lifecycle, persis_byte,
                   lifecycles, space_table, mem_nodes, j, cluster_adj,
                   node2cluster, cluster_size,
                   outside>>

OuterOpenNoSelf ==
    /\ pc = "outer"
    /\ i <= Len(mem_nodes)
    /\ mem_nodes[i].cluster < 0
    /\ LET cluster_index == Cardinality(DOMAIN cluster_size)
       IN  mem_nodes' = [mem_nodes EXCEPT ![i].cluster = cluster_index]
    /\ cluster_size' =
          Put(cluster_size, mem_nodes[i].name, LimbsToInt(mem_nodes[i].size))
    /\ cluster_adj' = mem_nodes[i].adj
    /\ j' = i + 1
    /\ pc' = "inner"
    /\ UNCHANGED <<nodes, topo, pos, max_lifecycle, persis_byte, lifecycles,
                   space_table, i, node2cluster,
                   outside>>

\* Lines 239-243: the node opens a cluster.
OuterOpen ==
    /\ pc = "outer"
    /\ i <= Len(mem_nodes)
    /\ mem_nodes[i].cluster < 0
    /\ LET cluster_index == Cardinality(DOMAIN cluster_size)
       IN  mem_nodes' = [mem_nodes EXCEPT ![i].cluster = cluster_index]
    /\ cluster_size' =
          Put(cluster_size, mem_nodes[i].name, LimbsToInt(mem_nodes[i].size))
    /\ node2cluster' = Put(node2cluster, mem_nodes[i].name, mem_nodes[i].name)
    /\ cluster_adj' = mem_nodes[i].adj
    /\ j' = i + 1
    /\ pc' = "inner"
    /\ UNCHANGED <<nodes, topo, pos, max_lifecycle, persis_byte, lifecycles,
                   space_table, i,
                   outside>>

AdmitsUnassigned(m, adjset) == m.cluster < 0

\* Lines 245-246.
Admits(m, adjset) == m.cluster < 0 /\ m.name \notin adjset

InnerAdmitForgets ==
    /\ pc = "inner"
    /\ j <= Len(mem_nodes)
    /\ Admits(mem_nodes[j], cluster_adj)
    /\ node2cluster' = Put(node2cluster, mem_nodes[j].name, mem_nodes[i].name)
    /\ mem_nodes' = [mem_nodes EXCEPT ![j].cluster = mem_nodes[i].cluster]
    /\ j' = j + 1
    /\ UNCHANGED <<nodes, topo, pc, pos, max_lifecycle, persis_byte,
                   lifecycles, space_table, i, cluster_adj, cluster_size,
                   outside>>

InnerAdmitReassigns ==
    /\ pc = "inner"
    /\ j <= Len(mem_nodes)
    /\ mem_nodes[j].name \notin cluster_adj
    /\ node2cluster' = Put(node2cluster, mem_nodes[j].name, mem_nodes[i].name)
    /\ mem_nodes' = [mem_nodes EXCEPT ![j].cluster = mem_nodes[i].cluster]
    /\ cluster_adj' = cluster_adj \cup mem_nodes[j].adj
    /\ j' = j + 1
    /\ UNCHANGED <<nodes, topo, pc, pos, max_lifecycle, persis_byte,
                   lifecycles, space_table, i, cluster_size, outside>>

\* Lines 247-251: the node joins the open cluster.
InnerAdmit ==
    /\ pc = "inner"
    /\ j <= Len(mem_nodes)
    /\ Admits(mem_nodes[j], cluster_adj)
    /\ node2cluster' = Put(node2cluster, mem_nodes[j].name, mem_nodes[i].name)
    /\ mem_nodes' = [mem_nodes EXCEPT ![j].cluster = mem_nodes[i].cluster]
    /\ cluster_adj' = cluster_adj \cup mem_nodes[j].adj
    /\ j' = j + 1
    /\ UNCHANGED <<nodes, topo, pc, pos, max_lifecycle, persis_byte,
                   lifecycles, space_table, i, cluster_size,
                   outside>>

\* Lines 245-246: the node has a cluster, or is adjacent to the open one.
InnerReject ==
    /\ pc = "inner"
    /\ j <= Len(mem_nodes)
    /\ ~Admits(mem_nodes[j], cluster_adj)
    /\ j' = j + 1
    /\ UNCHANGED <<nodes, topo, pc, pos, max_lifecycle, persis_byte,
                   lifecycles, space_table, mem_nodes, i, cluster_adj,
                   node2cluster, cluster_size,
                   outside>>

\* Line 244: the inner loop ends.
InnerEnd ==
    /\ pc = "inner"
    /\ j > Len(mem_nodes)
    /\ i' = i + 1
    /\ pc' = "outer"
    /\ UNCHANGED <<nodes, topo, pos, max_lifecycle, persis_byte, lifecycles,
                   space_table, mem_nodes, j, cluster_adj, node2cluster,
                   cluster_size,
                   outside>>

\* Line 237: the outer loop ends, MakeSimpleReusePlan returns.
PlanDone ==
    /\ pc = "outer"
    /\ i > Len(mem_nodes)
    /\ pc' = "done"
    /\ UNCHANGED <<nodes, topo, pos, max_lifecycle, persis_byte, lifecycles,
                   space_table, mem_nodes, i, j, cluster_adj, node2cluster,
                   cluster_size,
                   outside>>

NextPlan ==
    \/ PlanPrepare
    \/ OuterSkip
    \/ OuterOpen
    \/ InnerAdmit
    \/ InnerReject
    \/ InnerEnd
    \/ PlanDone

-----------------------------------------------------------------------------
(* The graph. Nodes 1..NumOps are operator nodes, the next NumVars nodes    *)
(* are variable nodes. Variable nodes of one name carry copies of the same *)
(* VarDesc.                                                                *)

OpIds == 1..NumOps
VarIds == (NumOps + 1)..(NumOps + NumVars)
NodeIds == OpIds \cup VarIds

OpTypes == {"feed", "fetch", "mul", "while"}

VarDescs ==
    { [vtype |-> "LOD_TENSOR", persistable |-> FALSE, shape |-> <<2, 3>>, dtype |-> "float32"],
      [vtype |-> "LOD_TENSOR", persistable |-> FALSE, shape |-> <<-1, 6>>, dtype |-> "int64"],
      [vtype |-> "LOD_TENSOR", persistable |-> FALSE, shape |-> <<65536, 65536>>, dtype |-> "float32"],
      [vtype |-> "LOD_TENSOR", persistable |-> TRUE, shape |-> <<2, 3>>, dtype |-> "float32"],
      [vtype |-> "LOD_TENSOR", persistable |-> TRUE, shape |-> <<-1, 3>>, dtype |-> "float32"],
      [vtype |-> "LOD_TENSOR_ARRAY", persistable |-> FALSE, shape |-> <<2, 3>>, dtype |-> "float32"],
      [vtype |-> "LOD_TENSOR_ARRAY", persistable |-> TRUE, shape |-> <<2, 3>>, dtype |-> "float32"] }

RECURSIVE SetToSeq(_)
SetToSeq(S) ==
    IF S = {} THEN <<>>
    ELSE LET m == CHOOSE x \in S : \A y \in S : x <= y
         IN  <<m>> \o SetToSeq(S \ {m})

\* Every variable node has at most one operator that writes it, and the
\* operators are numbered in an order in which no variable node is read
\* before it is written.
Rels ==
    {rel \in [VarIds -> [OpIds -> {"none", "in", "out"}]] :
        \A v \in VarIds :
            /\ Cardinality({o \in OpIds : rel[v][o] = "out"}) <= 1
            /\ \A o1, o2 \in OpIds :
                  (rel[v][o1] = "in" /\ rel[v][o2] = "out") => o2 < o1}

\* The names of the variable nodes: the first node has the first name, every
\* other node has a name already in use or the next new one.
Namings ==
    {nm \in [VarIds -> 1..NumVars] :
        \A v \in VarIds :
            nm[v] <= 1 + Cardinality({nm[w] : w \in {w \in VarIds : w < v}})}

MakeGraph(optype, rel, nm, descs) ==
    [n \in NodeIds |->
        IF n \in OpIds
        THEN [isOp |-> TRUE, name |-> optype[n],
              inputs |-> SetToSeq({v \in VarIds : rel[v][n] = "in"}),
              outputs |-> SetToSeq({v \in VarIds : rel[v][n] = "out"}),
              hasVar |-> FALSE, vtype |-> "", persistable |-> FALSE,
              shape |-> <<>>, dtype |-> ""]
        ELSE [isOp |-> FALSE, name |-> NameSeq[nm[n]],
              inputs |-> SetToSeq({o \in OpIds : rel[n][o] = "out"}),
              outputs |-> SetToSeq({o \in OpIds : rel[n][o] = "in"}),
              hasVar |-> TRUE, vtype |-> descs[nm[n]].vtype,
              persistable |-> descs[nm[n]].persistable,
              shape |-> descs[nm[n]].shape, dtype |-> descs[nm[n]].dtype]]

\* TopologyVariantSort: the operator nodes, every writer of a variable node
\* before its readers.
TopoOrders(rel) ==
    {f \in Perms(OpIds) :
        \A v \in VarIds : \A p, q \in DOMAIN f :
            (rel[v][f[p]] = "out" /\ rel[v][f[q]] = "in") => p < q}

SeqRange(q) == {q[p] : p \in DOMAIN q}

SizeOfType(dtype) == IF dtype = "int64" THEN 8 ELSE 4

-----------------------------------------------------------------------------
(* CollectLifeCycle                                                        *)

FeedLifetimeStep == <<max_lifecycle, max_lifecycle>>

FeedLifetimeSwapped == <<IntMax, 0>>

\* Line 77.
FeedLifetime == <<0, IntMax>>

RECURSIVE EmplaceFeedNonPersistable(_, _, _)
EmplaceFeedNonPersistable(outs, k, lc) ==
    IF k > Len(outs) THEN lc
    ELSE LET var == nodes[outs[k]].name
         IN  EmplaceFeedNonPersistable(outs, k + 1,
                 IF var \in DOMAIN lc \/ nodes[outs[k]].persistable
                 THEN lc ELSE Put(lc, var, <<0, IntMax>>))

\* Lines 74-78: emplace leaves an entry that exists as it is.
RECURSIVE EmplaceFeed(_, _, _)
EmplaceFeed(outs, k, lc) ==
    IF k > Len(outs) THEN lc
    ELSE LET var == nodes[outs[k]].name
         IN  EmplaceFeed(outs, k + 1,
                 IF var \in DOMAIN lc THEN lc ELSE Put(lc, var, FeedLifetime))

RECURSIVE ProductOf(_, _)
ProductOf(shape, k) ==
    IF k > Len(shape) THEN 1 ELSE shape[k] * ProductOf(shape, k + 1)

MaxKeepsEnd(a, b) == b

\* Line 113.
Max(a, b) == IF a >= b THEN a ELSE b

RECURSIVE VisitReqConsumers(_, _, _, _)
VisitReqConsumers(req, k, lc, pb) ==
    IF k > Len(req) THEN [abort |-> FALSE, lifecycles |-> lc, persis_byte |-> pb]
    ELSE LET node == nodes[req[k]] IN
         IF ~node.hasVar THEN VisitReqConsumers(req, k + 1, lc, pb)
         ELSE IF node.persistable
         THEN IF \E p \in DOMAIN node.outputs : nodes[node.outputs[p]].name = "fetch"
              THEN VisitReqConsumers(req, k + 1, lc, pb)
              ELSE IF \E p \in DOMAIN node.shape : node.shape[p] < 0
              THEN [abort |-> TRUE, lifecycles |-> lc, persis_byte |-> pb]
              ELSE VisitReqConsumers(req, k + 1, lc,
                       pb + SizeOfType(node.dtype) * ProductOf(node.shape, 1))
         ELSE LET var == node.name IN
              IF var \notin DOMAIN lc
              THEN VisitReqConsumers(req, k + 1,
                       Put(lc, var, <<max_lifecycle, max_lifecycle>>), pb)
              ELSE VisitReqConsumers(req, k + 1,
                       Put(lc, var, <<lc[var][1], Max(max_lifecycle, lc[var][2])>>), pb)

\* Lines 81-115: the nodes of req in order; abort is the exception of
\* PADDLE_ENFORCE_GE.
RECURSIVE VisitReq(_, _, _, _)
VisitReq(req, k, lc, pb) ==
    IF k > Len(req) THEN [abort |-> FALSE, lifecycles |-> lc, persis_byte |-> pb]
    ELSE LET node == nodes[req[k]] IN
         IF ~node.hasVar THEN VisitReq(req, k + 1, lc, pb)
         ELSE IF node.persistable
         THEN IF \E p \in DOMAIN node.inputs : nodes[node.inputs[p]].name = "fetch"
              THEN VisitReq(req, k + 1, lc, pb)
              ELSE IF \E p \in DOMAIN node.shape : node.shape[p] < 0
              THEN [abort |-> TRUE, lifecycles |-> lc, persis_byte |-> pb]
              ELSE VisitReq(req, k + 1, lc,
                       pb + SizeOfType(node.dtype) * ProductOf(node.shape, 1))
         ELSE LET var == node.name IN
              IF var \notin DOMAIN lc
              THEN VisitReq(req, k + 1,
                       Put(lc, var, <<max_lifecycle, max_lifecycle>>), pb)
              ELSE VisitReq(req, k + 1,
                       Put(lc, var, <<lc[var][1], Max(max_lifecycle, lc[var][2])>>), pb)

\* Lines 66-70.
Req(op) == op.inputs \o op.outputs

\* Lines 73-78 and 118: a feed operator.
LifeFeed ==
    /\ pc = "lifecycle"
    /\ pos <= Len(topo)
    /\ nodes[topo[pos]].isOp
    /\ nodes[topo[pos]].name = "feed"
    /\ lifecycles' = EmplaceFeed(nodes[topo[pos]].outputs, 1, lifecycles)
    /\ max_lifecycle' = max_lifecycle + 1
    /\ pos' = pos + 1
    /\ UNCHANGED <<nodes, topo, pc, persis_byte, space_table, mem_nodes, i, j,
                   cluster_adj, node2cluster, cluster_size,
                   outside>>

\* Lines 79-118: any other operator, no shape is rejected.
LifeNormal ==
    /\ pc = "lifecycle"
    /\ pos <= Len(topo)
    /\ nodes[topo[pos]].isOp
    /\ nodes[topo[pos]].name # "feed"
    /\ LET r == VisitReq(Req(nodes[topo[pos]]), 1, lifecycles, persis_byte)
       IN  /\ ~r.abort
           /\ lifecycles' = r.lifecycles
           /\ persis_byte' = r.persis_byte
    /\ max_lifecycle' = max_lifecycle + 1
    /\ pos' = pos + 1
    /\ UNCHANGED <<nodes, topo, pc, space_table, mem_nodes, i, j, cluster_adj,
                   node2cluster, cluster_size,
                   outside>>

LifeAbortPublishes ==
    /\ pc = "lifecycle"
    /\ pos <= Len(topo)
    /\ nodes[topo[pos]].isOp
    /\ nodes[topo[pos]].name # "feed"
    /\ VisitReq(Req(nodes[topo[pos]]), 1, lifecycles, persis_byte).abort
    /\ pc' = "aborted"
    /\ lifecycles' = EmptyMap
    /\ registry' = Put(registry, <<root_predictor_id, "memory_optimize_pass">>,
                       [node2cluster |-> node2cluster])
    /\ UNCHANGED <<nodes, topo, pos, max_lifecycle, persis_byte, space_table,
                   mem_nodes, i, j, cluster_adj, node2cluster, cluster_size,
                   enable_memory_optim, root_predictor_id, other>>

\* Lines 92-98: a persistable variable has a negative dimension; the
\* exception leaves RunImpl, whose maps are destroyed.
LifeAbort ==
    /\ pc = "lifecycle"
    /\ pos <= Len(topo)
    /\ nodes[topo[pos]].isOp
    /\ nodes[topo[pos]].name # "feed"
    /\ VisitReq(Req(nodes[topo[pos]]), 1, lifecycles, persis_byte).abort
    /\ pc' = "aborted"
    /\ lifecycles' = EmptyMap
    /\ UNCHANGED <<nodes, topo, pos, max_lifecycle, persis_byte, space_table,
                   mem_nodes, i, j, cluster_adj, node2cluster, cluster_size,
                   outside>>

LifeSkipCounts ==
    /\ pc = "lifecycle"
    /\ pos <= Len(topo)
    /\ ~nodes[topo[pos]].isOp
    /\ max_lifecycle' = max_lifecycle + 1
    /\ pos' = pos + 1
    /\ UNCHANGED <<nodes, topo, pc, persis_byte, lifecycles, space_table,
                   mem_nodes, i, j, cluster_adj, node2cluster, cluster_size,
                   outside>>

\* Line 65: a node of the traversal that is not an operator is passed over;
\* line 118 is not reached.
LifeSkip ==
    /\ pc = "lifecycle"
    /\ pos <= Len(topo)
    /\ ~nodes[topo[pos]].isOp
    /\ pos' = pos + 1
    /\ UNCHANGED <<nodes, topo, pc, max_lifecycle, persis_byte, lifecycles,
                   space_table, mem_nodes, i, j, cluster_adj, node2cluster,
                   cluster_size, outside>>

\* Lines 119-122: the traversal is over.
LifeEnd ==
    /\ pc = "lifecycle"
    /\ pos > Len(topo)
    /\ pc' = "size"
    /\ UNCHANGED <<nodes, topo, pos, max_lifecycle, persis_byte, lifecycles,
                   space_table, mem_nodes, i, j, cluster_adj, node2cluster,
                   cluster_size,
                   outside>>

-----------------------------------------------------------------------------
(* CollectVarMemorySize                                                    *)

\* Line 126.
fake_batch_size == 1

\* Lines 130-141.
invalid_op ==
    {"while", "conditional_block", "tensorrt_engine", "conditional_block_infer",
     "merge_lod_tensor_infer", "merge_lod_tensor", "equal", "sequence_pool",
     "recurrent", "lod_reset", "fetch", "share_data"}

RECURSIVE ScanIncidentNoEnforce(_, _)
ScanIncidentNoEnforce(list, k) ==
    IF k > Len(list) THEN "valid"
    ELSE IF nodes[list[k]].isOp /\ nodes[list[k]].name \in invalid_op THEN "invalid"
    ELSE ScanIncidentNoEnforce(list, k + 1)

\* Lines 142-153 and 154-165: one incidence list, in order. "error" is the
\* exception of PADDLE_ENFORCE_EQ.
RECURSIVE ScanIncident(_, _)
ScanIncident(list, k) ==
    IF k > Len(list) THEN "valid"
    ELSE IF ~nodes[list[k]].isOp THEN "error"
    ELSE IF nodes[list[k]].name \in invalid_op THEN "invalid"
    ELSE ScanIncident(list, k + 1)

valid_var_inputs_only(n) == ScanIncident(nodes[n].inputs, 1)

\* Lines 128-167.
valid_var(n) ==
    LET a == ScanIncident(nodes[n].inputs, 1)
    IN  IF a # "valid" THEN a ELSE ScanIncident(nodes[n].outputs, 1)

IsAnyVar(n) == ~nodes[n].isOp /\ nodes[n].hasVar

\* Lines 174-176 and 185-187.
IsDenseVar(n) ==
    ~nodes[n].isOp /\ nodes[n].hasVar /\ nodes[n].vtype = "LOD_TENSOR"

\* Lines 172-181.
black_list == {nodes[n].name : n \in {n \in NodeIds : IsDenseVar(n) /\ valid_var(n) # "valid"}}

\* Lines 192-194.
FakeShape(shape) ==
    [p \in DOMAIN shape |-> IF shape[p] < 0 THEN fake_batch_size ELSE shape[p]]

\* Lines 196-197: std::accumulate with an int accumulator: every product is
\* formed in int64_t and converted to int.
RECURSIVE AccumulateInt(_, _, _)
AccumulateInt(shape, k, acc) ==
    IF k > Len(shape) THEN acc
    ELSE AccumulateInt(shape, k + 1,
             LimbsToInt(MulLimbs(SignedToLimbs(acc, SizeTLimbs),
                                 SignedToLimbs(shape[k], SizeTLimbs))))

\* Lines 191-199: the int is converted to size_t and multiplied.
VarSize(n) ==
    MulLimbs(SignedToLimbs(AccumulateInt(FakeShape(nodes[n].shape), 1, 1), SizeTLimbs),
             ToLimbs(SizeOfType(nodes[n].dtype), SizeTLimbs))

SizedNodesAny ==
    {n \in NodeIds : IsDenseVar(n) /\ nodes[n].name \notin black_list}

\* Lines 185-190.
SizedNodes ==
    {n \in NodeIds :
        IsDenseVar(n) /\ nodes[n].name \notin black_list /\ ~nodes[n].persistable}

SizeTableInPlace ==
    /\ pc = "size"
    /\ \A n \in NodeIds : IsDenseVar(n) => valid_var(n) # "error"
    /\ space_table' =
          [var \in {nodes[n].name : n \in SizedNodes} |->
              VarSize(CHOOSE n \in SizedNodes : nodes[n].name = var)]
    /\ nodes' = [n \in NodeIds |->
                    IF n \in SizedNodes
                    THEN [nodes[n] EXCEPT !.shape = FakeShape(@)]
                    ELSE nodes[n]]
    /\ pc' = "plan"
    /\ UNCHANGED <<topo, pos, max_lifecycle, persis_byte, lifecycles,
                   mem_nodes, i, j, cluster_adj, node2cluster, cluster_size,
                   outside>>

\* Lines 124-202.
SizeTable ==
    /\ pc = "size"
    /\ \A n \in NodeIds : IsDenseVar(n) => valid_var(n) # "error"
    /\ space_table' =
          [var \in {nodes[n].name : n \in SizedNodes} |->
              VarSize(CHOOSE n \in SizedNodes : nodes[n].name = var)]
    /\ pc' = "plan"
    /\ UNCHANGED <<nodes, topo, pos, max_lifecycle, persis_byte, lifecycles,
                   mem_nodes, i, j, cluster_adj, node2cluster, cluster_size,
                   outside>>

\* Lines 143-149 and 155-161: PADDLE_ENFORCE_EQ fails for a node of an
\* incidence list that is not an operator; the exception leaves RunImpl,
\* whose maps are destroyed.
SizeAbort ==
    /\ pc = "size"
    /\ \E n \in NodeIds : IsDenseVar(n) /\ valid_var(n) = "error"
    /\ pc' = "aborted"
    /\ lifecycles' = EmptyMap
    /\ UNCHANGED <<nodes, topo, pos, max_lifecycle, persis_byte, space_table,
                   mem_nodes, i, j, cluster_adj, node2cluster, cluster_size,
                   outside>>

-----------------------------------------------------------------------------------------------------------------------------------------------------
(* RunImpl                                                                 *)

\* Line 261.
repr == "memory_optimize_pass"

\* PassResultInfoForRuntime::Set: the entry of (id, pass) is created or
\* replaced, every other entry is left alone.
RegistrySet(reg, id, pass, value) == Put(reg, <<id, pass>>, value)

\* Lines 291-292: the key RunImpl publishes under.
ResultKey == <<root_predictor_id, repr>>

ResultBoth == [node2cluster |-> node2cluster, cluster_size |-> cluster_size]

\* Line 292: what RunImpl hands to Set.
ResultValue == [node2cluster |-> node2cluster]

\* Line 274: the flag is set.
RunEnabled ==
    /\ pc = "start"
    /\ enable_memory_optim
    /\ pc' = "lifecycle"
    /\ UNCHANGED <<nodes, topo, pos, max_lifecycle, persis_byte, lifecycles,
                   space_table, mem_nodes, i, j, cluster_adj, node2cluster,
                   cluster_size, outside>>

RunIgnoresFlag ==
    /\ pc = "start"
    /\ ~enable_memory_optim
    /\ pc' = "lifecycle"
    /\ UNCHANGED <<nodes, topo, pos, max_lifecycle, persis_byte, lifecycles,
                   space_table, mem_nodes, i, j, cluster_adj, node2cluster,
                   cluster_size, outside>>

\* Line 274: the flag is off, RunImpl returns.
RunDisabled ==
    /\ pc = "start"
    /\ ~enable_memory_optim
    /\ pc' = "returned"
    /\ UNCHANGED <<nodes, topo, pos, max_lifecycle, persis_byte, lifecycles,
                   space_table, mem_nodes, i, j, cluster_adj, node2cluster,
                   cluster_size, outside>>

PublishClusterSize ==
    /\ pc = "done"
    /\ registry' = RegistrySet(registry, root_predictor_id, repr,
                               [cluster_size |-> cluster_size])
    /\ pc' = "published"
    /\ UNCHANGED <<nodes, topo, pos, max_lifecycle, persis_byte, lifecycles,
                   space_table, mem_nodes, i, j, cluster_adj, node2cluster,
                   cluster_size, enable_memory_optim, root_predictor_id,
                   other>>

PublishUnderZero ==
    /\ pc = "done"
    /\ registry' = RegistrySet(registry, 0, repr, ResultValue)
    /\ pc' = "published"
    /\ UNCHANGED <<nodes, topo, pos, max_lifecycle, persis_byte, lifecycles,
                   space_table, mem_nodes, i, j, cluster_adj, node2cluster,
                   cluster_size, enable_memory_optim, root_predictor_id,
                   other>>

\* Lines 290-294.
Publish ==
    /\ pc = "done"
    /\ registry' = RegistrySet(registry, root_predictor_id, repr, ResultValue)
    /\ pc' = "published"
    /\ UNCHANGED <<nodes, topo, pos, max_lifecycle, persis_byte, lifecycles,
                   space_table, mem_nodes, i, j, cluster_adj, node2cluster,
                   cluster_size, enable_memory_optim, root_predictor_id,
                   other>>

\* RunImpl has returned or an exception has left it.
Ended == {"returned", "aborted", "published"}

DenseDesc ==
    [vtype |-> "LOD_TENSOR", persistable |-> FALSE, shape |-> <<2, 3>>, dtype |-> "float32"]

\* A traversal that has the variable node v behind the first k operators.
WithNode(order, k, v) ==
    [p \in 1..(Len(order) + 1) |->
        IF p <= k THEN order[p] ELSE IF p = k + 1 THEN v ELSE order[p - 1]]

\* A graph whose variable node v has the node x, not an operator, in one of
\* its incidence lists, in front of the operators or behind them.
Malformed(g, v, side, front, x) ==
    LET put(list) == IF front THEN <<x>> \o list ELSE list \o <<x>>
    IN  [g EXCEPT ![v].inputs = IF side = "inputs" THEN put(@) ELSE @,
                  ![v].outputs = IF side = "outputs" THEN put(@) ELSE @]

\* No other thread is inside RunImpl.
NoOther == [pc |-> "none"]

Init ==
    /\ \/ \E optype \in [OpIds -> OpTypes], rel \in Rels, nm \in Namings :
            \E descs \in [{nm[v] : v \in VarIds} -> VarDescs] :
               /\ nodes = MakeGraph(optype, rel, nm, descs)
               /\ topo \in TopoOrders(rel)
       \/ \E optype \in [OpIds -> {"mul", "while"}], rel \in Rels, nm \in Namings :
            \E v \in VarIds, x \in VarIds, side \in {"inputs", "outputs"},
               front \in BOOLEAN :
               /\ nodes = Malformed(MakeGraph(optype, rel, nm,
                                              [n \in {nm[w] : w \in VarIds} |-> DenseDesc]),
                                    v, side, front, x)
               /\ topo \in TopoOrders(rel)
       \/ \E optype \in [OpIds -> {"feed", "mul"}], rel \in Rels, nm \in Namings :
            \E order \in TopoOrders(rel), v \in VarIds, k \in 0..NumOps :
               /\ nodes = MakeGraph(optype, rel, nm,
                                    [n \in {nm[w] : w \in VarIds} |-> DenseDesc])
               /\ topo = WithNode(order, k, v)
    /\ pc = "start"
    /\ pos = 1
    /\ max_lifecycle = 0
    /\ persis_byte = 0
    /\ lifecycles = EmptyMap
    /\ space_table = EmptyMap
    /\ mem_nodes = <<>>
    /\ i = 1
    /\ j = 1
    /\ cluster_adj = {}
    /\ node2cluster = EmptyMap
    /\ cluster_size = EmptyMap
    /\ enable_memory_optim \in BOOLEAN
    /\ root_predictor_id = 1
    /\ registry = EmptyMap
    /\ other = NoOther

Next ==
    \/ RunEnabled
    \/ RunDisabled
    \/ LifeFeed
    \/ LifeNormal
    \/ LifeAbort
    \/ LifeSkip
    \/ LifeEnd
    \/ SizeTable
    \/ SizeAbort
    \/ PlanPrepare
    \/ OuterSkip
    \/ OuterOpen
    \/ InnerAdmit
    \/ InnerReject
    \/ InnerEnd
    \/ PlanDone
    \/ Publish

Spec == Init /\ [][Next]_vars

-----------------------------------------------------------------------------
(* Two threads inside RunImpl of the singleton pass, each with its own     *)
(* Argument. The variables hold the call of the thread that runs; the call *)
(* of the thread that waits is kept in other.                              *)

\* Lines 263-284: the Argument's fields and the locals of one call.
Context ==
    [nodes |-> nodes, topo |-> topo, pc |-> pc, pos |-> pos,
     max_lifecycle |-> max_lifecycle, persis_byte |-> persis_byte,
     lifecycles |-> lifecycles, space_table |-> space_table,
     mem_nodes |-> mem_nodes, i |-> i, j |-> j, cluster_adj |-> cluster_adj,
     node2cluster |-> node2cluster, cluster_size |-> cluster_size,
     enable_memory_optim |-> enable_memory_optim,
     root_predictor_id |-> root_predictor_id]

\* The call at the entry of RunImpl.
FreshContext(g, order, flag, id) ==
    [nodes |-> g, topo |-> order, pc |-> "start", pos |-> 1,
     max_lifecycle |-> 0, persis_byte |-> 0, lifecycles |-> EmptyMap,
     space_table |-> EmptyMap, mem_nodes |-> <<>>, i |-> 1, j |-> 1,
     cluster_adj |-> {}, node2cluster |-> EmptyMap, cluster_size |-> EmptyMap,
     enable_memory_optim |-> flag, root_predictor_id |-> id]

SwitchSharedLifecycles ==
    /\ other.pc \notin Ended
    /\ other' = Context
    /\ nodes' = other.nodes
    /\ topo' = other.topo
    /\ pc' = other.pc
    /\ pos' = other.pos
    /\ max_lifecycle' = other.max_lifecycle
    /\ persis_byte' = other.persis_byte
    /\ space_table' = other.space_table
    /\ mem_nodes' = other.mem_nodes
    /\ i' = other.i
    /\ j' = other.j
    /\ cluster_adj' = other.cluster_adj
    /\ node2cluster' = other.node2cluster
    /\ cluster_size' = other.cluster_size
    /\ enable_memory_optim' = other.enable_memory_optim
    /\ root_predictor_id' = other.root_predictor_id
    /\ UNCHANGED <<registry, lifecycles>>

\* The scheduler lets the other thread run: the graph and the locals of
\* lines 278-284 belong to the call, the registry to the process.
Switch ==
    /\ other.pc \notin Ended
    /\ other' = Context
    /\ nodes' = other.nodes
    /\ topo' = other.topo
    /\ pc' = other.pc
    /\ pos' = other.pos
    /\ max_lifecycle' = other.max_lifecycle
    /\ persis_byte' = other.persis_byte
    /\ lifecycles' = other.lifecycles
    /\ space_table' = other.space_table
    /\ mem_nodes' = other.mem_nodes
    /\ i' = other.i
    /\ j' = other.j
    /\ cluster_adj' = other.cluster_adj
    /\ node2cluster' = other.node2cluster
    /\ cluster_size' = other.cluster_size
    /\ enable_memory_optim' = other.enable_memory_optim
    /\ root_predictor_id' = other.root_predictor_id
    /\ UNCHANGED registry

NegativeDesc ==
    [vtype |-> "LOD_TENSOR", persistable |-> TRUE, shape |-> <<-1, 3>>, dtype |-> "float32"]

\* The graphs of the two sessions: the first operator is a feed or not, the
\* first variable node is written by the first operator, the last by the
\* last, every variable node has a name of its own.
SessionRels ==
    {rel \in Rels : rel[NumOps + 1][1] = "out" /\ rel[NumOps + NumVars][NumOps] = "out"}

SessionOpTypes ==
    {[o \in OpIds |-> IF o = 1 THEN first ELSE "mul"] : first \in {"feed", "mul"}}

SessionNaming == [v \in VarIds |-> v - NumOps]

SessionGraphs ==
    {MakeGraph(optype, rel, SessionNaming, descs) :
        optype \in SessionOpTypes, rel \in SessionRels,
        descs \in [1..NumVars -> {DenseDesc, NegativeDesc}]}
    \cup
    {Malformed(MakeGraph([o \in OpIds |-> "mul"], rel, SessionNaming,
                         [n \in 1..NumVars |-> DenseDesc]),
               NumOps + 1, "inputs", TRUE, NumOps + NumVars) :
        rel \in SessionRels}

\* The orders TopologyVariantSort can return for a graph.
OrdersOf(g) ==
    {f \in Perms(OpIds) :
        \A v \in VarIds : \A p, q \in DOMAIN f :
            (/\ \E a \in DOMAIN g[v].inputs : g[v].inputs[a] = f[p]
             /\ \E a \in DOMAIN g[v].outputs : g[v].outputs[a] = f[q]) => p < q}

\* The registry holds the plan an earlier run published for session 1.
StaleRegistry ==
    [k \in {<<1, repr>>} |-> [node2cluster |-> [n \in {"Z"} |-> "Z"]]]

InitSessions ==
    /\ \E g \in SessionGraphs :
         /\ nodes = g
         /\ \/ topo \in OrdersOf(g)
            \/ /\ \A n \in OpIds : g[n].name = "mul"
               /\ \A n \in VarIds : ~g[n].persistable
               /\ \E order \in OrdersOf(g) : topo = WithNode(order, 1, NumOps + 1)
    /\ pc = "start"
    /\ pos = 1
    /\ max_lifecycle = 0
    /\ persis_byte = 0
    /\ lifecycles = EmptyMap
    /\ space_table = EmptyMap
    /\ mem_nodes = <<>>
    /\ i = 1
    /\ j = 1
    /\ cluster_adj = {}
    /\ node2cluster = EmptyMap
    /\ cluster_size = EmptyMap
    /\ enable_memory_optim \in BOOLEAN
    /\ root_predictor_id \in {1, 2}
    /\ registry = StaleRegistry
    /\ \E g \in SessionGraphs :
         \E order \in OrdersOf(g) :
            other = FreshContext(g, order, TRUE, 1)

NextSessions ==
    \/ Next
    \/ Switch

SpecSessions == InitSessions /\ [][NextSessions]_vars

-----------------------------------------------------------------------------
(* MakeSimpleReusePlan on its own: the two maps are drawn from bounded     *)
(* sets.                                                                   *)

Steps == 0..MaxStep

\* The lifetimes CollectLifeCycle can record: start <= end, or the lifetime
\* of a feed variable.
Lifetimes == {<<s, e>> \in Steps \X Steps : s <= e} \cup {<<0, IntMax>>}

Size48 == ToLimbs(48, SizeTLimbs)
Size96 == ToLimbs(96, SizeTLimbs)
\* 2^32 + 48
SizeBig == <<48, 0, 0, 0, 1, 0, 0, 0>>

SizeValues == {Size48, Size96, SizeBig}

PartialMaps(D, R) == UNION {[S -> R] : S \in SUBSET D}

ScenarioLifecycles == [n \in {"A", "B", "C"} |->
    IF n = "A" THEN <<0, 2>> ELSE IF n = "B" THEN <<3, 5>> ELSE <<1, 4>>]

ScenarioSpaceTable == [n \in {"A", "B", "C"} |->
    ToLimbs(IF n = "A" THEN 100 ELSE IF n = "B" THEN 50 ELSE 80, SizeTLimbs)]

\* Four candidates whose lifetimes overlap in a chain A - B - C - D; by
\* size they are ordered A, D, B, C.
ChainLifecycles == [n \in {"A", "B", "C", "D"} |->
    IF n = "A" THEN <<0, 0>> ELSE IF n = "B" THEN <<0, 1>>
    ELSE IF n = "C" THEN <<1, 2>> ELSE <<2, 2>>]

ChainSpaceTable == [n \in {"A", "B", "C", "D"} |->
    ToLimbs(IF n = "A" THEN 100 ELSE IF n = "D" THEN 90
            ELSE IF n = "B" THEN 80 ELSE 70, SizeTLimbs)]

InitPlan ==
    /\ nodes = EmptyMap
    /\ topo = <<>>
    /\ pc = "plan"
    /\ pos = 1
    /\ max_lifecycle = 0
    /\ persis_byte = 0
    /\ \/ /\ lifecycles \in PartialMaps(Names, Lifetimes)
          /\ space_table \in PartialMaps(Names, SizeValues)
       \/ /\ lifecycles = ScenarioLifecycles
          /\ space_table = ScenarioSpaceTable
       \/ /\ lifecycles = ChainLifecycles
          /\ space_table = ChainSpaceTable
    /\ mem_nodes = <<>>
    /\ i = 1
    /\ j = 1
    /\ cluster_adj = {}
    /\ node2cluster = EmptyMap
    /\ cluster_size = EmptyMap
    /\ enable_memory_optim = TRUE
    /\ root_predictor_id = 1
    /\ registry = EmptyMap
    /\ other = NoOther

SpecPlan == InitPlan /\ [][NextPlan]_vars

-----------------------------------------------------------------------------
(* The node2cluster that lines 237-254 compute from a sorted vector, as a  *)
(* function of that vector.                                                *)

RECURSIVE InnerLoop(_, _, _, _, _)
InnerLoop(ms, oi, ij, adjset, n2c) ==
    IF ij > Len(ms) THEN [ms |-> ms, n2c |-> n2c]
    ELSE IF Admits(ms[ij], adjset)
         THEN InnerLoop([ms EXCEPT ![ij].cluster = ms[oi].cluster], oi, ij + 1,
                        adjset \cup ms[ij].adj, Put(n2c, ms[ij].name, ms[oi].name))
         ELSE InnerLoop(ms, oi, ij + 1, adjset, n2c)

RECURSIVE OuterLoop(_, _, _, _)
OuterLoop(ms, oi, count, n2c) ==
    IF oi > Len(ms) THEN n2c
    ELSE IF ms[oi].cluster >= 0 THEN OuterLoop(ms, oi + 1, count, n2c)
    ELSE LET opened == [ms EXCEPT ![oi].cluster = count]
             r == InnerLoop(opened, oi, oi + 1, opened[oi].adj,
                            Put(n2c, ms[oi].name, ms[oi].name))
         IN  OuterLoop(r.ms, oi + 1, count + 1, r.n2c)

PlanOf(sorted) == OuterLoop(sorted, 1, 0, EmptyMap)

\* Every vector lines 209-234 can hand to the clustering loop.
SortedVectors ==
    UNION {SortOutcomes(BuildAdj(CollectMemNodes(enum))) : enum \in Perms(Candidates)}

Unclustered(ms) == [p \in DOMAIN ms |-> [ms[p] EXCEPT !.cluster = -1]]

\* The stepwise loop and its functional form agree.
PlanOfAgrees == pc = "done" => PlanOf(Unclustered(mem_nodes)) = node2cluster

-----------------------------------------------------------------------------
(* Claims about MakeSimpleReusePlan.                                       *)

Range(f) == {f[x] : x \in DOMAIN f}

Members(r) == {v \in DOMAIN node2cluster : node2cluster[v] = r}

\* Two closed intervals share a step.
SharesStep(a, b) == a[2] >= b[1] /\ b[2] >= a[1]

\* C1: after MakeSimpleReusePlan, two distinct candidates whose closed
\* intervals overlap are never mapped to the same cluster.
C1_OverlapSeparated ==
    pc = "done" =>
        \A u, v \in Candidates :
            (u # v /\ SharesStep(lifecycles[u], lifecycles[v]))
                => node2cluster[u] # node2cluster[v]

\* C1 witness: a finished plan with overlapping candidates and a cluster of
\* two members.
C1_Witness ==
    /\ pc = "done"
    /\ \E u, v \in Candidates : u # v /\ SharesStep(lifecycles[u], lifecycles[v])
    /\ \E r \in Range(node2cluster) : Cardinality(Members(r)) >= 2

\* An int is at least an unsigned 64-bit value.
IntGeSize(c, s) == c >= 0 /\ ~GtLimbs(s, ToLimbs(c, SizeTLimbs))

\* C2: after MakeSimpleReusePlan, the recorded size of a cluster is at least
\* the size of each of its members.
C2_ClusterSizeCovers ==
    pc = "done" =>
        \A v \in DOMAIN node2cluster :
            /\ node2cluster[v] \in DOMAIN cluster_size
            /\ IntGeSize(cluster_size[node2cluster[v]], space_table[v])

\* C3: two runs of MakeSimpleReusePlan on the same two maps produce the same
\* node2cluster, whatever the enumeration order of the map and whatever
\* std::sort does with equal sizes.
C3_Deterministic ==
    pc = "done" => \A sorted \in SortedVectors : PlanOf(sorted) = node2cluster

IsScenario == lifecycles = ScenarioLifecycles /\ space_table = ScenarioSpaceTable

\* C8: the worked scenario A(100,[0,2]), B(50,[3,5]), C(80,[1,4]) is
\* processed in the order A, C, B and yields node2cluster = {A->A, C->C,
\* B->A} and cluster_size = {A:100, C:80}.
C8_WorkedScenario ==
    (IsScenario /\ pc = "done") =>
        /\ [p \in DOMAIN mem_nodes |-> mem_nodes[p].name] = <<"A", "C", "B">>
        /\ node2cluster = [n \in {"A", "B", "C"} |-> IF n = "C" THEN "C" ELSE "A"]
        /\ cluster_size = [n \in {"A", "C"} |-> IF n = "A" THEN 100 ELSE 80]

\* C8 witness: the run on the worked scenario has finished.
C8_Witness == IsScenario /\ pc = "done"

\* C9: after MakeSimpleReusePlan, the keys of node2cluster are exactly the
\* names that are keys of both the lifecycle map and the size table.
C9_KeysAreCandidates ==
    pc = "done" =>
        DOMAIN node2cluster = (DOMAIN lifecycles) \cap (DOMAIN space_table)

\* C9 witness: a finished plan with a candidate, a name that has only a
\* lifetime and a name that has only a size.
C9_Witness ==
    /\ pc = "done"
    /\ DOMAIN node2cluster # {}
    /\ (DOMAIN lifecycles) \ (DOMAIN space_table) # {}
    /\ (DOMAIN space_table) \ (DOMAIN lifecycles) # {}

\* C10: after MakeSimpleReusePlan, every value of node2cluster is a candidate
\* mapped to itself, and the keys of cluster_size are exactly the values of
\* node2cluster.
C10_Representatives ==
    pc = "done" =>
        /\ \A v \in DOMAIN node2cluster :
              /\ node2cluster[v] \in DOMAIN node2cluster
              /\ node2cluster[node2cluster[v]] = node2cluster[v]
        /\ DOMAIN cluster_size = Range(node2cluster)

\* C10 witness: a finished plan with two clusters, one of them with two
\* members.
C10_Witness ==
    /\ pc = "done"
    /\ Cardinality(Range(node2cluster)) >= 2
    /\ \E r \in Range(node2cluster) : Cardinality(Members(r)) >= 2

-----------------------------------------------------------------------------
(* Claims about a complete run on a graph.                                 *)

FeedOps == {o \in NodeIds : nodes[o].isOp /\ nodes[o].name = "feed"}

\* The names of the variables that a feed operator outputs.
FeedOutputNames == {nodes[v].name : v \in UNION {SeqRange(nodes[o].outputs) : o \in FeedOps}}

\* The feed operator at position p of the traversal outputs x, and no other
\* kind of operator visited before it references a variable named x.
FeedSeesFirst(x, p) ==
    /\ topo[p] \in FeedOps
    /\ x \in {nodes[v].name : v \in SeqRange(nodes[topo[p]].outputs)}
    /\ \A q \in 1..(p - 1) :
          \/ topo[q] \in FeedOps
          \/ x \notin {nodes[v].name :
                         v \in SeqRange(nodes[topo[q]].inputs)
                               \cup SeqRange(nodes[topo[q]].outputs)}

\* C4 as stated: after a complete run, no output variable of a feed operator
\* is a key of node2cluster.
C4_FeedNeverKey ==
    pc = "done" => \A x \in FeedOutputNames : x \notin DOMAIN node2cluster

\* C4 amended: after a complete run, an output variable of a feed operator is
\* a key of node2cluster exactly when it is a key of the size table; when the
\* feed operator is the first visited operator that references it, it is
\* mapped to itself and no other variable is mapped to it.
C4_FeedKeptAlone ==
    pc = "done" =>
        \A x \in FeedOutputNames :
            /\ x \in DOMAIN node2cluster <=> x \in DOMAIN space_table
            /\ (x \in DOMAIN node2cluster /\ \E p \in DOMAIN topo : FeedSeesFirst(x, p))
                  => (node2cluster[x] = x /\ Members(x) = {x})

\* C4 witness: a finished run in which a feed output, first referenced by its
\* feed operator, is a key of node2cluster beside another candidate.
C4_Witness ==
    /\ pc = "done"
    /\ \E x \in FeedOutputNames :
          /\ x \in DOMAIN node2cluster
          /\ \E p \in DOMAIN topo : FeedSeesFirst(x, p)
          /\ DOMAIN node2cluster # {x}

PersistableNames ==
    {nodes[v].name : v \in {v \in NodeIds : nodes[v].hasVar /\ nodes[v].persistable}}

\* C5: a persistable variable is never a key of node2cluster, whichever
\* operators reference it.
C5_PersistableNeverKey ==
    \A x \in PersistableNames : x \notin DOMAIN node2cluster

\* C5 witness: a finished run with a non-empty plan on a graph whose feed
\* operator put a persistable variable in the lifecycle map.
C5_Witness ==
    /\ pc = "done"
    /\ DOMAIN node2cluster # {}
    /\ \E x \in PersistableNames : x \in DOMAIN lifecycles

\* The names of the variables that are an input or an output of an operator
\* of a blacklisted type.
BlacklistedNames ==
    {nodes[v].name :
        v \in UNION {SeqRange(nodes[o].inputs) \cup SeqRange(nodes[o].outputs) :
                        o \in {o \in NodeIds : nodes[o].isOp /\ nodes[o].name \in invalid_op}}}

\* C6: a variable that is an input or an output of a blacklisted operator is
\* never a key of the size table nor of node2cluster.
C6_BlacklistedNeverKey ==
    \A x \in BlacklistedNames :
        x \notin DOMAIN space_table /\ x \notin DOMAIN node2cluster

\* C6 witness: a finished run with a non-empty plan on a graph in which a
\* dense, non-persistable variable with a lifetime is read by a blacklisted
\* operator.
C6_Witness ==
    /\ pc = "done"
    /\ DOMAIN node2cluster # {}
    /\ \E o \in NodeIds :
          /\ nodes[o].isOp
          /\ nodes[o].name \in invalid_op
          /\ \E v \in SeqRange(nodes[o].inputs) :
                /\ IsDenseVar(v)
                /\ ~nodes[v].persistable
                /\ nodes[v].name \in DOMAIN lifecycles

\* The product of the dimensions, every negative one taken as 1, times the
\* byte width, without any wraparound.
RECURSIVE WideProduct(_, _)
WideProduct(shape, k) ==
    IF k > Len(shape) THEN ToLimbs(1, WideLimbs)
    ELSE MulLimbs(ToLimbs(IF shape[k] < 0 THEN 1 ELSE shape[k], WideLimbs),
                  WideProduct(shape, k + 1))

ExactBytes(n) ==
    MulLimbs(WideProduct(nodes[n].shape, 1), ToLimbs(SizeOfType(nodes[n].dtype), WideLimbs))

\* C7: every entry of the size table is the product of the dimensions of the
\* variable, every negative one replaced by 1, times the byte width of its
\* data type.
C7_SizeIsProduct ==
    \A n \in NodeIds :
        (nodes[n].hasVar /\ nodes[n].name \in DOMAIN space_table)
            => Widen(space_table[nodes[n].name], WideLimbs) = ExactBytes(n)

-----------------------------------------------------------------------------
(* Claims about RunImpl and the registry.                                  *)

\* C11: when RunImpl has run with the flag set and has returned normally,
\* the registry holds both node2cluster and cluster_size of the run under
\* (root_predictor_id, "memory_optimize_pass").
C11_BothPublished ==
    pc = "published" =>
        /\ ResultKey \in DOMAIN registry
        /\ registry[ResultKey] = ResultBoth

\* C11, amended: the registry holds node2cluster of the run under that key,
\* and nothing else of the run: cluster_size is not published.
C11_PlanPublished ==
    pc = "published" =>
        /\ enable_memory_optim
        /\ ResultKey \in DOMAIN registry
        /\ DOMAIN registry[ResultKey] = {"node2cluster"}
        /\ registry[ResultKey].node2cluster = node2cluster
        /\ \A k \in DOMAIN registry : "cluster_size" \notin DOMAIN registry[k]

\* C11 witness: a run that built a cluster has published.
C11_Witness ==
    /\ pc = "published"
    /\ DOMAIN cluster_size # {}
    /\ DOMAIN node2cluster # {}

\* The maps of lines 281-284 are as RunImpl would declare them.
NothingComputed ==
    /\ lifecycles = EmptyMap
    /\ space_table = EmptyMap
    /\ node2cluster = EmptyMap
    /\ cluster_size = EmptyMap
    /\ mem_nodes = <<>>
    /\ max_lifecycle = 0

\* C12: a call of RunImpl whose Argument has the flag off never enters one
\* of the three steps, computes nothing, and none of its steps changes the
\* registry: no entry is created, none is overwritten.
C12_DisabledNoOp ==
    /\ [](~enable_memory_optim => (pc \in {"start", "returned"} /\ NothingComputed))
    /\ [][(~enable_memory_optim /\ other' = other) => registry' = registry]_vars

\* C12 witness: the call with the flag off has returned after the call of
\* the other thread published under the same key, and that entry is intact.
C12_Witness ==
    /\ ~enable_memory_optim
    /\ pc = "returned"
    /\ other.pc = "published"
    /\ other.root_predictor_id = root_predictor_id
    /\ registry[ResultKey].node2cluster = other.node2cluster

\* The registry as the calls of the other thread have left it.
RegistryWithoutThisRun ==
    IF other.pc = "published"
    THEN Put(StaleRegistry, <<other.root_predictor_id, repr>>,
             [node2cluster |-> other.node2cluster])
    ELSE StaleRegistry

\* C13: no step of a call up to and including the exception of
\* PADDLE_ENFORCE_GE (shape) or PADDLE_ENFORCE_EQ (graph) changes the
\* registry, the call takes no step after the exception, and the registry
\* then holds what it held without this call: no plan of the call, complete
\* or partial.
C13_NoPartialResults ==
    /\ [](pc = "aborted" => registry = RegistryWithoutThisRun)
    /\ [][(other' = other /\ pc \in {"start", "lifecycle", "size", "aborted"})
             => registry' = registry]_vars
    /\ [][(other' = other /\ pc = "aborted") => pc' = "aborted"]_vars

\* C13 witness: this call was left by the exception of CollectVarMemorySize
\* and the call of the other thread by the exception of CollectLifeCycle;
\* the registry is the one the process started with.
C13_Witness ==
    /\ pc = "aborted"
    /\ pos > Len(topo)
    /\ other.pc = "aborted"
    /\ other.pos <= Len(other.topo)
    /\ registry = StaleRegistry

\* C14: a call that publishes replaces the entry of its own key by its plan
\* and leaves every other entry alone. When the calls of both threads have
\* published under distinct ids, each key holds the plan of its call; under
\* the same id the key holds the plan of the call that published last (a
\* call that has ended is never scheduled again, so the call held by the
\* variables is the later of two that ended).
C14_LastWriterWins ==
    /\ []((pc = "published" /\ other.pc = "published") =>
            /\ registry[ResultKey].node2cluster = node2cluster
            /\ other.root_predictor_id # root_predictor_id =>
                  registry[<<other.root_predictor_id, repr>>].node2cluster
                      = other.node2cluster)
    /\ [][(pc = "done" /\ pc' = "published") =>
            /\ DOMAIN registry' = DOMAIN registry \cup {ResultKey}
            /\ registry'[ResultKey].node2cluster = node2cluster
            /\ \A k \in DOMAIN registry : k # ResultKey => registry'[k] = registry[k]]_vars

\* C14 witness: both calls have published under the same id, their plans
\* differ, and the other thread's call published first.
C14_Witness ==
    /\ pc = "published"
    /\ other.pc = "published"
    /\ other.root_predictor_id = root_predictor_id
    /\ other.node2cluster # node2cluster
    /\ registry[ResultKey].node2cluster = node2cluster

-----------------------------------------------------------------------------
(* What one call computes for its graph and its traversal order when no    *)
(* other thread runs: lines 61-119 and 184-201 as functions of the graph.  *)

\* Lines 74-78 at a given step.
RECURSIVE AloneFeed(_, _, _)
AloneFeed(outs, k, lc) ==
    IF k > Len(outs) THEN lc
    ELSE LET var == nodes[outs[k]].name
         IN  AloneFeed(outs, k + 1,
                 IF var \in DOMAIN lc THEN lc ELSE Put(lc, var, <<0, IntMax>>))

\* Lines 81-115 at a given step.
RECURSIVE AloneReq(_, _, _, _)
AloneReq(req, k, lc, step) ==
    IF k > Len(req) THEN [abort |-> FALSE, lifecycles |-> lc]
    ELSE LET node == nodes[req[k]] IN
         IF ~node.hasVar THEN AloneReq(req, k + 1, lc, step)
         ELSE IF node.persistable
         THEN IF \E p \in DOMAIN node.inputs : nodes[node.inputs[p]].name = "fetch"
              THEN AloneReq(req, k + 1, lc, step)
              ELSE IF \E p \in DOMAIN node.shape : node.shape[p] < 0
              THEN [abort |-> TRUE, lifecycles |-> lc]
              ELSE AloneReq(req, k + 1, lc, step)
         ELSE AloneReq(req, k + 1,
                  IF node.name \notin DOMAIN lc
                  THEN Put(lc, node.name, <<step, step>>)
                  ELSE Put(lc, node.name,
                           <<lc[node.name][1],
                             IF step >= lc[node.name][2] THEN step ELSE lc[node.name][2]>>),
                  step)

\* Lines 61-119 over the whole of topo.
RECURSIVE AloneLife(_, _)
AloneLife(p, lc) ==
    IF p > Len(topo) THEN [abort |-> FALSE, lifecycles |-> lc]
    ELSE LET op == nodes[topo[p]] IN
         IF ~op.isOp THEN AloneLife(p + 1, lc)
         ELSE IF op.name = "feed"
         THEN AloneLife(p + 1, AloneFeed(op.outputs, 1, lc))
         ELSE LET r == AloneReq(op.inputs \o op.outputs, 1, lc,
                                Cardinality({q \in 1..(p - 1) : nodes[topo[q]].isOp}))
              IN  IF r.abort THEN r ELSE AloneLife(p + 1, r.lifecycles)

AloneLifecycles == AloneLife(1, EmptyMap)

\* Lines 143-161: some PADDLE_ENFORCE_EQ fails.
AloneGraphError == \E n \in NodeIds : IsDenseVar(n) /\ valid_var(n) = "error"

\* Lines 184-201.
AloneSpaceTable ==
    [var \in {nodes[n].name : n \in SizedNodes} |->
        VarSize(CHOOSE n \in SizedNodes : nodes[n].name = var)]

\* C15: whatever the interleaving with the call of the other thread, a call
\* ends with an exception exactly when it does so alone, and otherwise its
\* lifecycles and space_table are the ones it computes alone and its
\* node2cluster is one that MakeSimpleReusePlan computes from these two maps.
C15_NoSharedState ==
    /\ pc = "aborted" => (AloneLifecycles.abort \/ AloneGraphError)
    /\ pc \in {"size", "plan", "outer", "inner", "done", "published"} =>
          /\ ~AloneLifecycles.abort
          /\ lifecycles = AloneLifecycles.lifecycles
    /\ pc \in {"plan", "outer", "inner", "done", "published"} =>
          /\ ~AloneGraphError
          /\ space_table = AloneSpaceTable
    /\ pc \in {"done", "published"} =>
          node2cluster \in {PlanOf(sorted) : sorted \in SortedVectors}

\* C15 witness: both calls have built a non-empty plan on distinct graphs
\* and the call that ended second ran while the first was inside RunImpl.
C15_Witness ==
    /\ pc = "published"
    /\ other.pc = "published"
    /\ other.nodes # nodes
    /\ DOMAIN node2cluster # {}
    /\ DOMAIN other.node2cluster # {}
    /\ other.lifecycles # lifecycles

-----------------------------------------------------------------------------
(* Claims about CollectLifeCycle.                                          *)

\* CollectLifeCycle has returned normally.
AfterLifeCycle == pc \in {"size", "plan", "outer", "inner", "done", "published"}

\* The names of the variable nodes that an operator node references.
ReqNames(o) == {nodes[v].name : v \in SeqRange(Req(nodes[o]))}

\* C16: after CollectLifeCycle, every output variable of a feed operator has
\* the lifetime (0, INT_MAX), whatever else references a variable of that
\* name and wherever in the traversal.
C16_FeedUnbounded ==
    AfterLifeCycle =>
        \A x \in FeedOutputNames :
            x \in DOMAIN lifecycles /\ lifecycles[x] = <<0, IntMax>>

\* The number of operator nodes among the first p - 1 nodes of the
\* traversal.
OperatorsBefore(p) == Cardinality({q \in 1..(p - 1) : nodes[topo[q]].isOp})

\* The steps (values of max_lifecycle) at which an operator that is not a
\* feed references a variable named x.
NonFeedSteps(x) ==
    {OperatorsBefore(p) :
        p \in {p \in DOMAIN topo : /\ nodes[topo[p]].isOp
                                   /\ topo[p] \notin FeedOps
                                   /\ x \in ReqNames(topo[p])}}

\* The non-persistable names that some operator other than a feed references
\* and no feed outputs.
SpanNames ==
    {x \in Names : NonFeedSteps(x) # {}} \ (PersistableNames \cup FeedOutputNames)

\* C17: after CollectLifeCycle, a non-persistable variable that operators
\* other than feed reference and that no feed outputs has the lifetime
\* (smallest, largest) of the steps of these operators; while the traversal
\* runs, the start of a recorded lifetime never changes and its end never
\* decreases.
C17_IntervalIsSpan ==
    /\ [](AfterLifeCycle =>
            \A x \in SpanNames :
                /\ x \in DOMAIN lifecycles
                /\ \A s \in NonFeedSteps(x) : lifecycles[x][1] <= s /\ s <= lifecycles[x][2]
                /\ lifecycles[x][1] \in NonFeedSteps(x)
                /\ lifecycles[x][2] \in NonFeedSteps(x))
    /\ [][(pc = "lifecycle" /\ pc' = "lifecycle") =>
            \A x \in DOMAIN lifecycles :
                /\ x \in DOMAIN lifecycles'
                /\ lifecycles'[x][1] = lifecycles[x][1]
                /\ lifecycles'[x][2] >= lifecycles[x][2]]_vars

\* C17 witness: the traversal is over and such a variable is referenced at
\* two steps, the second of which extended its lifetime.
C17_Witness ==
    /\ pc = "size"
    /\ \E x \in SpanNames :
          /\ Cardinality(NonFeedSteps(x)) >= 2
          /\ lifecycles[x][1] < lifecycles[x][2]

\* C18: whenever the traversal of CollectLifeCycle is under way or over,
\* every lifetime in the map has 0 <= start <= end.
C18_StartBeforeEnd ==
    \A x \in DOMAIN lifecycles :
        0 <= lifecycles[x][1] /\ lifecycles[x][1] <= lifecycles[x][2]

\* C18 witness: operators have been visited, the map holds the lifetime of
\* a feed variable and a lifetime that starts at a later step.
C18_Witness ==
    /\ pc = "lifecycle"
    /\ pos > 1
    /\ \E x, y \in DOMAIN lifecycles :
          lifecycles[x] = <<0, IntMax>> /\ lifecycles[y][1] > 0

\* C19: a persistable variable is never a key of the lifecycle map, whether
\* a feed operator or another operator references it.
C19_PersistableNeverInLifecycles ==
    \A x \in PersistableNames : x \notin DOMAIN lifecycles

\* The names of the outputs of the feed operators visited so far.
VisitedFeedOutputNames ==
    {nodes[v].name :
        v \in UNION {SeqRange(nodes[topo[p]].outputs) :
                        p \in {p \in DOMAIN topo : p < pos /\ topo[p] \in FeedOps}}}

\* C19, amended: an operator that is not a feed never enters a persistable
\* variable; a feed operator enters every output, persistable or not. While
\* the traversal runs and after it, the persistable keys of the lifecycle
\* map are the persistable outputs of the feed operators visited, each with
\* the lifetime (0, INT_MAX).
C19_PersistableOnlyByFeed ==
    (pc = "lifecycle" \/ AfterLifeCycle) =>
        \A x \in PersistableNames :
            /\ x \in DOMAIN lifecycles <=> x \in VisitedFeedOutputNames
            /\ x \in DOMAIN lifecycles => lifecycles[x] = <<0, IntMax>>

\* C19 witness: the traversal is over; a feed operator output a persistable
\* variable, which is a key, and another operator referenced a persistable
\* variable, which is not.
C19_Witness ==
    /\ pc = "size"
    /\ \E x, y \in PersistableNames :
          /\ x \in DOMAIN lifecycles
          /\ y \notin DOMAIN lifecycles
          /\ \E o \in OpIds \ FeedOps : y \in ReqNames(o)

\* The variable node is persistable and has a negative dimension.
NegativePersistable(v) ==
    /\ nodes[v].hasVar
    /\ nodes[v].persistable
    /\ \E p \in DOMAIN nodes[v].shape : nodes[v].shape[p] < 0

\* The variable node has consumers and all of them are fetch operators.
SolelyConsumedByFetch(v) ==
    /\ Len(nodes[v].outputs) > 0
    /\ \A p \in DOMAIN nodes[v].outputs :
          nodes[nodes[v].outputs[p]].isOp /\ nodes[nodes[v].outputs[p]].name = "fetch"

\* One of the producers of the variable node is a fetch operator.
ProducedByFetch(v) ==
    \E p \in DOMAIN nodes[v].inputs : nodes[nodes[v].inputs[p]].name = "fetch"

\* The bytes of the persistable variable nodes of req, from position k on,
\* that are not in the set exempt.
RECURSIVE CountedBytes(_, _, _)
CountedBytes(req, k, exempt) ==
    IF k > Len(req) THEN 0
    ELSE (IF nodes[req[k]].hasVar /\ nodes[req[k]].persistable /\ req[k] \notin exempt
          THEN SizeOfType(nodes[req[k]].dtype) * ProductOf(nodes[req[k]].shape, 1)
          ELSE 0) + CountedBytes(req, k + 1, exempt)

\* A step of the traversal at an operator that is not a feed: the exception
\* is thrown exactly when the operator references a persistable variable
\* with a negative dimension that is not in exempt; otherwise the traversal
\* goes on and the exempt variables add nothing to persis_byte.
NegativeShapeRule(exempt) ==
    (/\ pc = "lifecycle"
     /\ pos <= Len(topo)
     /\ topo[pos] \notin FeedOps
     /\ pc' # pc \/ pos' # pos) =>
        LET req == Req(nodes[topo[pos]])
        IN  IF \E v \in SeqRange(req) : NegativePersistable(v) /\ v \notin exempt
            THEN pc' = "aborted"
            ELSE /\ pc' = "lifecycle"
                 /\ pos' = pos + 1
                 /\ persis_byte' = persis_byte + CountedBytes(req, 1, exempt)

\* C20: at an operator that is not a feed, a persistable variable with a
\* negative dimension makes CollectLifeCycle throw, unless the variable is
\* solely consumed by fetch operators: then it is skipped and adds nothing
\* to persis_byte.
C20_FetchConsumedSkipped == [][NegativeShapeRule({v \in VarIds : SolelyConsumedByFetch(v)})]_vars

\* C20, amended: ... unless a fetch operator is among the producers of the
\* variable (the operators of node->inputs): then it is skipped, whatever
\* its shape, and adds nothing to persis_byte.
C20_FetchProducedSkipped == [][NegativeShapeRule({v \in VarIds : ProducedByFetch(v)})]_vars

\* C20 witness: the operator visited last is not a feed and references a
\* persistable variable with a negative dimension that a fetch operator
\* produces; the traversal went on and persis_byte is as before.
C20_Witness ==
    /\ pc = "lifecycle"
    /\ pos > 1
    /\ topo[pos - 1] \notin FeedOps
    /\ \E v \in SeqRange(Req(nodes[topo[pos - 1]])) :
          NegativePersistable(v) /\ ProducedByFetch(v)
    /\ persis_byte = 0

-----------------------------------------------------------------------------
(* Claims about CollectVarMemorySize.                                      *)

\* The two incidence lists of a variable node in the order valid_var scans
\* them.
Incident(n) == nodes[n].inputs \o nodes[n].outputs

\* The variable node has a node that is not an operator in an incidence
\* list.
HasNonOperator(n) == \E p \in DOMAIN Incident(n) : ~nodes[Incident(n)[p]].isOp

\* valid_var meets a node that is not an operator before it meets an
\* operator of a blacklisted type.
NonOperatorFirst(n) ==
    \E p \in DOMAIN Incident(n) :
        /\ ~nodes[Incident(n)[p]].isOp
        /\ \A q \in 1..(p - 1) :
              nodes[Incident(n)[q]].isOp /\ nodes[Incident(n)[q]].name \notin invalid_op

\* C21: CollectVarMemorySize throws and returns no table whenever a
\* dense-tensor variable node has a node that is not an operator in an
\* incidence list, whatever else the lists hold and in whatever order.
C21_NonOperatorAlwaysAborts ==
    [][(pc = "size" /\ pc' # pc /\ \E n \in NodeIds : IsDenseVar(n) /\ HasNonOperator(n))
          => pc' = "aborted"]_vars

\* C21, amended: CollectVarMemorySize throws exactly when, for some
\* dense-tensor variable node, the scan of the inputs and then the outputs
\* meets a node that is not an operator before it meets an operator of a
\* blacklisted type; it then returns no table.
C21_NonOperatorFirstAborts ==
    [][(pc = "size" /\ pc' # pc) =>
          /\ pc' = "aborted" <=> \E n \in NodeIds : IsDenseVar(n) /\ NonOperatorFirst(n)
          /\ pc' = "aborted" => space_table' = EmptyMap]_vars

\* C21 witness: CollectVarMemorySize has thrown on a graph in which a
\* dense-tensor variable node has both a blacklisted operator and a node
\* that is not an operator in its lists.
C21_Witness ==
    /\ pc = "aborted"
    /\ pos > Len(topo)
    /\ space_table = EmptyMap
    /\ \E n \in NodeIds :
          /\ IsDenseVar(n)
          /\ NonOperatorFirst(n)
          /\ \E p \in DOMAIN Incident(n) : nodes[Incident(n)[p]].name \in invalid_op

\* C22: the operator node visited after k other operator nodes is given the
\* step k, feed operators counted; a node of the traversal that is not an
\* operator consumes no step, so max_lifecycle grows by one from each
\* visited operator to the next and a lifetime entered at an operator
\* starts at that operator's count.
C22_StepIsOperatorCount ==
    /\ []((pc = "lifecycle" \/ AfterLifeCycle) => max_lifecycle = OperatorsBefore(pos))
    /\ [][(pc = "lifecycle" /\ pos' = pos + 1) =>
            /\ max_lifecycle' =
                  IF nodes[topo[pos]].isOp THEN max_lifecycle + 1 ELSE max_lifecycle
            /\ ~nodes[topo[pos]].isOp => lifecycles' = lifecycles
            /\ (nodes[topo[pos]].isOp /\ topo[pos] \notin FeedOps) =>
                  \A x \in DOMAIN lifecycles' \ DOMAIN lifecycles :
                      lifecycles'[x] = <<OperatorsBefore(pos), OperatorsBefore(pos)>>]_vars

\* C22 witness: the traversal is over, it had a node that is not an
\* operator in front of an operator, and a lifetime starts at a step that
\* is smaller than the position of its operator in the traversal.
C22_Witness ==
    /\ pc = "lifecycle"
    /\ pos > Len(topo)
    /\ max_lifecycle = Len(topo) - 1
    /\ \E p, q \in DOMAIN topo :
          /\ p < q
          /\ ~nodes[topo[p]].isOp
          /\ nodes[topo[q]].isOp
          /\ \E x \in DOMAIN lifecycles : lifecycles[x][1] = OperatorsBefore(q)

-----------------------------------------------------------------------------
(* Further claims about MakeSimpleReusePlan.                               *)

\* lines 223-230 have run.
AdjBuilt == pc \in {"outer", "inner", "done"}

\* Some integer lies in both closed intervals: the later of the two starts
\* does, or none.
CommonStep(a, b) ==
    LET t == Max(a[1], b[1])
    IN  a[1] <= t /\ t <= a[2] /\ b[1] <= t /\ t <= b[2]

\* C23: for two distinct candidates a and b, b's name is in a's adj exactly
\* when some step lies in both lifetimes (b.second >= a.first and a.second
\* >= b.first); adjacency is symmetric and no candidate is adjacent to
\* itself.
C23_AdjIsOverlap ==
    AdjBuilt =>
        \A p, q \in DOMAIN mem_nodes :
            /\ mem_nodes[p].name \notin mem_nodes[p].adj
            /\ p # q =>
                  /\ mem_nodes[q].name \in mem_nodes[p].adj
                        <=> CommonStep(mem_nodes[p].lifetime, mem_nodes[q].lifetime)
                  /\ mem_nodes[q].name \in mem_nodes[p].adj
                        <=> (/\ mem_nodes[q].lifetime[2] >= mem_nodes[p].lifetime[1]
                             /\ mem_nodes[p].lifetime[2] >= mem_nodes[q].lifetime[1])
                  /\ mem_nodes[q].name \in mem_nodes[p].adj
                        <=> mem_nodes[p].name \in mem_nodes[q].adj

\* C23 witness: three candidates, of which the first in the vector overlaps
\* a later one in a single step and is disjoint from another.
C23_Witness ==
    /\ AdjBuilt
    /\ Len(mem_nodes) = 3
    /\ \E q, r \in 2..3 :
          /\ mem_nodes[q].name \in mem_nodes[1].adj
          /\ mem_nodes[q].lifetime[1] = mem_nodes[1].lifetime[2]
          /\ mem_nodes[r].name \notin mem_nodes[1].adj

\* The positions of the members of the cluster that the inner loop fills.
OpenMembers == {p \in DOMAIN mem_nodes : mem_nodes[p].cluster = mem_nodes[i].cluster}

\* C24: while the inner loop runs, cluster_adj is the union of the adj sets
\* of the members of the open cluster, its first node included; a node
\* without a cluster is admitted exactly when its lifetime overlaps the
\* lifetime of no member.
C24_AdjacencyIsPairwise ==
    /\ [](pc = "inner" =>
            cluster_adj = UNION {mem_nodes[p].adj : p \in OpenMembers})
    /\ [][(pc = "inner" /\ j' = j + 1 /\ mem_nodes[j].cluster < 0) =>
            (mem_nodes'[j].cluster = mem_nodes[i].cluster
                <=> \A p \in OpenMembers :
                       ~SharesStep(mem_nodes[j].lifetime, mem_nodes[p].lifetime))]_vars

\* C24 witness: the open cluster has two members and the node just looked at
\* was rejected although it is disjoint from the first node of the cluster.
C24_Witness ==
    /\ pc = "inner"
    /\ Cardinality(OpenMembers) = 2
    /\ j > 1
    /\ j - 1 \notin OpenMembers
    /\ mem_nodes[j - 1].cluster < 0
    /\ ~SharesStep(mem_nodes[j - 1].lifetime, mem_nodes[i].lifetime)

\* The ways to split the candidates into at most k groups with no two
\* overlapping candidates in one group.
Splits(k) ==
    {f \in [Candidates -> 1..k] :
        \A u, v \in Candidates :
            (u # v /\ SharesStep(lifecycles[u], lifecycles[v])) => f[u] # f[v]}

\* The smallest number of such groups.
MinGroups ==
    CHOOSE k \in 0..Cardinality(Candidates) :
        Splits(k) # {} /\ \A m \in 0..(k - 1) : Splits(m) = {}

NumClusters == Cardinality(Range(node2cluster))

IsChain == lifecycles = ChainLifecycles /\ space_table = ChainSpaceTable

\* C25: MakeSimpleReusePlan never builds fewer clusters than the smallest
\* split has groups, and it is not minimal: on the chain A - B - C - D it
\* builds more clusters than the smallest split has groups.
C25_GreedyNotMinimal ==
    pc = "done" =>
        /\ NumClusters >= MinGroups
        /\ IsChain => NumClusters > MinGroups

\* C25 witness: the run on the chain has ended with three clusters, two
\* groups are enough.
C25_Witness ==
    /\ pc = "done"
    /\ IsChain
    /\ NumClusters = 3
    /\ MinGroups = 2

-----------------------------------------------------------------------------
(* Further claims about CollectVarMemorySize.                              *)

\* CollectVarMemorySize has returned normally.
AfterSize == pc \in {"plan", "outer", "inner", "done", "published"}

\* The variable nodes of type LOD_TENSOR.
DenseNodes == {v \in NodeIds : ~nodes[v].isOp /\ nodes[v].hasVar /\ nodes[v].vtype = "LOD_TENSOR"}

\* The variable node has an operator of a blacklisted type in an incidence
\* list.
TouchesBlacklisted(v) ==
    \E p \in DOMAIN Incident(v) :
        nodes[Incident(v)[p]].isOp /\ nodes[Incident(v)[p]].name \in invalid_op

\* C26: after CollectVarMemorySize, a name is a key of space_table exactly
\* when some LOD_TENSOR variable node of that name is not persistable and no
\* LOD_TENSOR variable node of that name touches a blacklisted operator; a
\* variable of another type never has an entry.
C26_KeysOfSpaceTable ==
    AfterSize =>
        /\ DOMAIN space_table =
              {nodes[v].name : v \in {v \in DenseNodes :
                  /\ ~nodes[v].persistable
                  /\ \A w \in DenseNodes :
                        nodes[w].name = nodes[v].name => ~TouchesBlacklisted(w)}}
        /\ \A v \in NodeIds :
              (~nodes[v].isOp /\ nodes[v].vtype # "LOD_TENSOR")
                  => nodes[v].name \notin DOMAIN space_table

\* C26 witness: CollectVarMemorySize has returned; two variable nodes have
\* one name, only one of them touches a blacklisted operator, and the name
\* is not a key; a variable of another name is a key.
C26_Witness ==
    /\ AfterSize
    /\ \E v, w \in DenseNodes :
          /\ v # w
          /\ nodes[v].name = nodes[w].name
          /\ ~nodes[v].persistable
          /\ TouchesBlacklisted(v)
          /\ ~TouchesBlacklisted(w)
          /\ nodes[v].name \notin DOMAIN space_table


\* C27: after MakeSimpleReusePlan, the recorded size of every cluster is
\* exactly the size space_table holds for its representative, also when that
\* size exceeds the largest int.
C27_ClusterSizeExact ==
    pc = "done" =>
        \A r \in DOMAIN cluster_size :
            /\ cluster_size[r] >= 0
            /\ ToLimbs(cluster_size[r], SizeTLimbs) = space_table[r]

\* The variables that belong to the graph and to the other calls, which no
\* step of CollectVarMemorySize may touch.
SizeFrame == <<nodes, topo, pos, max_lifecycle, persis_byte, lifecycles,
               mem_nodes, i, j, cluster_adj, node2cluster, cluster_size,
               outside>>

\* C28: CollectVarMemorySize leaves the graph as it was: shapes (negative
\* dimensions included), persistable flags, data types and incidence lists
\* are unchanged by the call, whether it returns or throws, and a call that
\* returns has changed nothing but space_table.
C28_GraphUnchanged ==
    [][pc = "size" =>
          /\ UNCHANGED <<nodes, topo>>
          /\ pc' = "plan" => UNCHANGED SizeFrame]_vars

\* C28 witness: CollectVarMemorySize has returned an entry computed with
\* the placeholder for a variable whose shape in the graph is still
\* negative.
C28_Witness ==
    /\ pc = "plan"
    /\ \E n \in SizedNodes :
          /\ \E p \in DOMAIN nodes[n].shape : nodes[n].shape[p] < 0
          /\ nodes[n].name \in DOMAIN space_table
          /\ space_table[nodes[n].name] = VarSize(n)
          /\ FakeShape(nodes[n].shape) # nodes[n].shape

-----------------------------------------------------------------------------
(* Further claims about MakeSimpleReusePlan.                               *)

\* The candidates whose lifetime is the one CollectLifeCycle gives to the
\* outputs of feed.
FeedCandidates == {x \in Candidates : lifecycles[x] = <<0, IntMax>>}

\* C29: a candidate with the lifetime (0, INT_MAX) overlaps every other
\* candidate; whenever the plan has it, it is mapped to itself and nothing
\* else is mapped to it, and the finished plan has it.
C29_FeedCandidateAlone ==
    \A x \in FeedCandidates :
        /\ \A y \in Candidates : SharesStep(lifecycles[x], lifecycles[y])
        /\ x \in DOMAIN node2cluster =>
              /\ node2cluster[x] = x
              /\ Members(x) = {x}
        /\ pc = "done" => x \in DOMAIN node2cluster /\ x \in DOMAIN cluster_size

\* C29 witness: the plan is finished, a candidate with the lifetime
\* (0, INT_MAX) was sorted first and so was offered every other candidate,
\* and two other candidates share a cluster.
C29_Witness ==
    /\ pc = "done"
    /\ Len(mem_nodes) = 3
    /\ mem_nodes[1].name \in FeedCandidates
    /\ node2cluster[mem_nodes[2].name] = node2cluster[mem_nodes[3].name]
    /\ Members(mem_nodes[1].name) = {mem_nodes[1].name}

\* The positions of mem_nodes that are in the cluster of index k.
ClusterPositions(k) == {p \in DOMAIN mem_nodes : mem_nodes[p].cluster = k}

\* Every node in a cluster opened after cluster k overlaps a member of k
\* that is sorted before it.
GreedyMaximal ==
    pc = "done" =>
        \A v \in DOMAIN mem_nodes :
            \A k \in 0..(mem_nodes[v].cluster - 1) :
                \E m \in ClusterPositions(k) :
                    /\ m < v
                    /\ SharesStep(mem_nodes[m].lifetime, mem_nodes[v].lifetime)

\* A step of the clustering loop keeps every assignment already made.
AssignmentsKept ==
    pc \in {"outer", "inner"} =>
        /\ \A x \in DOMAIN node2cluster :
              x \in DOMAIN node2cluster' /\ node2cluster'[x] = node2cluster[x]
        /\ \A p \in DOMAIN mem_nodes :
              mem_nodes[p].cluster >= 0 =>
                  mem_nodes'[p].cluster = mem_nodes[p].cluster

\* C30: in the finished plan every candidate of a cluster opened after
\* cluster K overlaps a member of K sorted before it, and no step of the
\* clustering loop changes an assignment once made.
C30_GreedyMaximal ==
    []GreedyMaximal /\ [][AssignmentsKept]_vars

\* C30 witness: the plan is finished with two clusters, the first of which
\* admitted a candidate sorted after the representative of the second.
C30_Witness ==
    /\ pc = "done"
    /\ Len(mem_nodes) = 3
    /\ mem_nodes[1].cluster = 0
    /\ mem_nodes[2].cluster = 1
    /\ mem_nodes[3].cluster = 0

====
